---- MODULE Spec2Model ----
(***************************************************************************)
(* Model of the renamer bot (src/src/commands.rs): the role database, the  *)
(* role lookup, the set-up check and the command handlers rename, allow,   *)
(* disallow and set_roles, run against a guild directory that changes      *)
(* outside the program's control.                                          *)
(*                                                                         *)
(* Text is a sequence of Unicode code points; stored bytes are sequences   *)
(* of numbers 0..255.  Every await of a handler is one step of the         *)
(* invocation that runs it.                                                *)
(***************************************************************************)
EXTENDS Integers, Sequences, FiniteSets, TLC

\* ------------------------------------------------------------------ bounds
MaxEvents == 3     \* command invocations and changes made from outside
MaxRacers == 2     \* set_roles invocations of concurrent administrators
MaxPad == 2        \* blanks put around a nickname under validation

\* --------------------------------------------------------- option values
None == [some |-> FALSE]
Some(v) == [some |-> TRUE, val |-> v]
Panicked == [some |-> FALSE, panic |-> TRUE]   \* unwrap on an Err or a None

\* ------------------------------------------------------------------ text
Rep(c, n) == [i \in 1..n |-> c]

IsPrefix(s, t) == Len(s) <= Len(t) /\ SubSeq(t, 1, Len(s)) = s

\* char::is_whitespace, the property str::trim tests (Unicode White_Space)
IsWhitespace(c) ==
    \/ c \in 9..13
    \/ c \in {32, 133, 160, 5760, 8232, 8233, 8239, 8287, 12288}
    \/ c \in 8192..8202

RECURSIVE TrimStart(_)
TrimStart(s) ==
    IF s # <<>> /\ IsWhitespace(Head(s)) THEN TrimStart(Tail(s)) ELSE s

RECURSIVE TrimEnd(_)
TrimEnd(s) ==
    IF s # <<>> /\ IsWhitespace(s[Len(s)])
    THEN TrimEnd(SubSeq(s, 1, Len(s) - 1))
    ELSE s

\* str::trim
Trim(s) == TrimEnd(TrimStart(s))

\* the UTF-8 encoding of one code point
Utf8Char(c) ==
    IF c < 128 THEN <<c>>
    ELSE IF c < 2048 THEN <<192 + (c \div 64), 128 + (c % 64)>>
    ELSE IF c < 65536
    THEN <<224 + (c \div 4096), 128 + ((c \div 64) % 64), 128 + (c % 64)>>
    ELSE <<240 + (c \div 262144), 128 + ((c \div 4096) % 64),
           128 + ((c \div 64) % 64), 128 + (c % 64)>>

\* one byte for every character, as in Latin-1
as_bytes_latin1(s) == [i \in 1..Len(s) |-> s[i] % 256]

\* str::as_bytes: a Rust string is its UTF-8 bytes
RECURSIVE as_bytes(_)
as_bytes(s) == IF s = <<>> THEN <<>> ELSE Utf8Char(Head(s)) \o as_bytes(Tail(s))

\* str::len: the length in bytes
StrLen(s) == Len(as_bytes(s))

\* the number of bytes a sequence that starts with lead byte b takes (0: no lead)
Utf8Width(b) ==
    IF b < 128 THEN 1
    ELSE IF b \in 194..223 THEN 2
    ELSE IF b \in 224..239 THEN 3
    ELSE IF b \in 240..244 THEN 4
    ELSE 0

IsCont(b) == b \in 128..191

\* String::from_utf8: Some(text), or None where the bytes are not UTF-8
RECURSIVE from_utf8(_)
from_utf8(bs) ==
    IF bs = <<>> THEN Some(<<>>)
    ELSE LET w == Utf8Width(bs[1]) IN
         IF w = 0 \/ Len(bs) < w \/ \E i \in 2..w : ~IsCont(bs[i]) THEN None
         ELSE LET c == IF w = 1 THEN bs[1]
                       ELSE IF w = 2 THEN (bs[1] - 192) * 64 + (bs[2] - 128)
                       ELSE IF w = 3
                       THEN (bs[1] - 224) * 4096 + (bs[2] - 128) * 64 + (bs[3] - 128)
                       ELSE (bs[1] - 240) * 262144 + (bs[2] - 128) * 4096
                            + (bs[3] - 128) * 64 + (bs[4] - 128)
                  rest == from_utf8(SubSeq(bs, w + 1, Len(bs)))
              IN IF rest.some THEN Some(<<c>> \o rest.val) ELSE None

\* ------------------------------------------------------------ the inputs
Kinds == {"Renamer", "Allow"}
Guilds == {1, 257}                      \* guild ids
Members == {1, 2}                       \* user ids
UserName == (1 :> <<97, 108>>) @@ (2 :> <<97, 108, 101, 120>>)   \* al, alex
MembersOf(g) == IF g = 1 THEN {1, 2} ELSE {1}
RoleNames == {<<77, 111, 100, 115>>, <<77, 111, 100, 233>>}      \* Mods, Modé
Queries == {<<97, 108>>, <<97, 108, 101>>, <<98, 111>>}          \* al, ale, bo
RoleIds == 1..(2 * MaxEvents)           \* an invocation creates two roles at most
Procs == {1, 2}
SeqProcs == {1}

\* --------------------------------------------------------------- RoleDb
NickTooLong == 33
KeyWidth == 8

\* a key cut to its lowest byte
to_ne_bytes_low(n, w) == <<n % 256>>

\* u64::to_ne_bytes on a little-endian target
RECURSIVE to_ne_bytes(_, _)
to_ne_bytes(n, w) ==
    IF w = 0 THEN <<>> ELSE <<n % 256>> \o to_ne_bytes(n \div 256, w - 1)

\* sled::Tree::get and insert on one tree, a map from key bytes to value bytes
TreeGet(tree, key) == IF key \in DOMAIN tree THEN Some(tree[key]) ELSE None
TreeInsert(tree, key, val) ==
    [x \in DOMAIN tree \cup {key} |-> IF x = key THEN val ELSE tree[x]]

\* both kinds kept in one tree
get_db_shared(app_role) == "Renamer"

\* RoleDb::get_db: the tree of a kind
get_db(app_role) == app_role

\* result.map(|val| String::from_utf8(val.to_vec()).unwrap())
MapUtf8(result) ==
    IF ~result.some THEN None
    ELSE LET text == from_utf8(result.val) IN
         IF text.some THEN Some(text.val) ELSE Panicked

\* RoleDb::get without an I/O error: None, Some(text), or Panicked
RoleDbGet(store, app_role, key) ==
    MapUtf8(TreeGet(store[get_db(app_role)], to_ne_bytes(key, KeyWidth)))

\* an insert that keeps a value already stored
RoleDbInsertIfAbsent(store, app_role, key, value) ==
    LET key_bytes == to_ne_bytes(key, KeyWidth)
        tree == store[get_db(app_role)]
    IN [store |-> IF key_bytes \in DOMAIN tree THEN store
                  ELSE [store EXCEPT ![get_db(app_role)] =
                           TreeInsert(tree, key_bytes, as_bytes(value))],
        prev |-> MapUtf8(TreeGet(tree, key_bytes))]

\* RoleDb::insert without an I/O error: the store it leaves and the previous
\* value it returns; sled's insert replaces the value and hands back the one
\* it replaced in one atomic operation
RoleDbInsert(store, app_role, key, value) ==
    LET key_bytes == to_ne_bytes(key, KeyWidth)
        tree == store[get_db(app_role)]
    IN [store |-> [store EXCEPT ![get_db(app_role)] =
                      TreeInsert(tree, key_bytes, as_bytes(value))],
        prev |-> MapUtf8(TreeGet(tree, key_bytes))]

\* ------------------------------------------------------- the role lookup
\* a lookup that takes any role, and one that finds none
role_by_name_any(guildRoles, name) == DOMAIN guildRoles
role_by_name_none(guildRoles, name) == {}

\* role_by_name!: the roles find may return; values() of the fetched map is
\* in no fixed order, so with several roles of one name find returns any of them
role_by_name(guildRoles, name) ==
    {id \in DOMAIN guildRoles : name = guildRoles[id]}

\* ------------------------------------------------------------ validation
is_valid_nickname(nickname) ==
    LET n == StrLen(Trim(nickname)) IN ~(n = 0 \/ n >= NickTooLong)

\* the nicknames given to rename: "Al", "", a blank and 32 letters, 17 e-acute
RenameNicks ==
    {<<65, 108>>, <<>>, <<32>> \o Rep(97, NickTooLong - 1), Rep(233, 17)}

\* ----------------------------------------------------------------- state
VARIABLES
    db,           \* ROLE_DB: for each kind a tree from key bytes to value bytes
    written,      \* history: for each kind and guild the name set last, if any
    roles,        \* the directory: for each guild its live roles, id -> name
    nextRoleId,   \* the id the directory gives the next role it creates
    memberRoles,  \* the directory: for each guild and member the roles held
    nick,         \* the directory: for each guild and member the nickname
    procs,        \* the command invocations
    prevInv,      \* the set_roles call that completed last, nothing since
    events,       \* invocations started and changes made from outside so far
    nickIn,       \* the nickname under validation
    nickOut       \* what is_valid_nickname answered for it

vars == <<db, written, roles, nextRoleId, memberRoles, nick, procs, prevInv,
          events, nickIn, nickOut>>

dirVars == <<roles, nextRoleId, memberRoles, nick>>
nickVars == <<nickIn, nickOut>>

NoKind == [k \in Kinds |-> ""]

Idle ==
    [pc |-> "idle", cmd |-> "none", guild |-> 0, invoker |-> 0,
     username |-> <<>>, nickname |-> <<>>,
     role_name |-> [k \in Kinds |-> <<>>],
     kind |-> "Renamer", stored |-> None, role_id |-> 0,
     gate |-> "none", held |-> "none", found |-> 0 - 1, target |-> 0,
     msg |-> "", ephemeral |-> TRUE,
     db_msg |-> NoKind, prev |-> [k \in Kinds |-> None],
     role_msg |-> NoKind, role_ids |-> [k \in Kinds |-> 0],
     replies |-> 0, result |-> "none", alone |-> TRUE, rerun |-> FALSE,
     fresh |-> FALSE]

Done(r, res) == [r EXCEPT !.pc = "done", !.result = res]
Running(p) == procs[p].pc \notin {"idle", "done"}
Busy(p) == procs[p].pc # "idle"

Init ==
    /\ db = [k \in Kinds |-> <<>>]
    /\ written = [k \in Kinds |-> [g \in Guilds |-> None]]
    /\ roles = [g \in Guilds |-> <<>>]
    /\ nextRoleId = 1
    /\ memberRoles = [g \in Guilds |-> [m \in MembersOf(g) |-> {}]]
    /\ nick = [g \in Guilds |-> [m \in MembersOf(g) |-> None]]
    /\ procs = [p \in Procs |-> Idle]
    /\ prevInv = None
    /\ events = 0
    /\ nickIn = <<>>
    /\ nickOut = "unset"

\* ------------------------------------------------------ the directory
\* an invocation under way that something else happened next to
Disturbed(r) ==
    IF r.pc = "idle" THEN r
    ELSE [r EXCEPT !.alone = FALSE, !.rerun = FALSE, !.fresh = FALSE]

\* a change made from outside: it ends every "nothing since" the model tracks
Outside ==
    /\ events < MaxEvents
    /\ events' = events + 1
    /\ prevInv' = None
    /\ procs' = [p \in Procs |-> Disturbed(procs[p])]
    /\ UNCHANGED <<db, written, nickIn, nickOut>>

WithoutRole(held, id) == [m \in DOMAIN held |-> held[m] \ {id}]
WithoutKey(f, x) == [y \in DOMAIN f \ {x} |-> f[y]]

\* an administrator creates a role by hand
ExtCreateRole(g, name) ==
    /\ roles' = [roles EXCEPT ![g] = @ @@ (nextRoleId :> name)]
    /\ nextRoleId' = nextRoleId + 1
    /\ Outside
    /\ UNCHANGED <<memberRoles, nick>>

\* an administrator deletes a role: its members lose it
ExtDeleteRole(g, id) ==
    /\ id \in DOMAIN roles[g]
    /\ roles' = [roles EXCEPT ![g] = WithoutKey(@, id)]
    /\ memberRoles' = [memberRoles EXCEPT ![g] = WithoutRole(@, id)]
    /\ Outside
    /\ UNCHANGED <<nextRoleId, nick>>

\* an administrator renames a role
ExtRenameRole(g, id, name) ==
    /\ id \in DOMAIN roles[g]
    /\ roles[g][id] # name
    /\ roles' = [roles EXCEPT ![g][id] = name]
    /\ Outside
    /\ UNCHANGED <<nextRoleId, memberRoles, nick>>

\* an administrator gives a member a role, or takes it away
ExtGrantRole(g, m, id) ==
    /\ id \in DOMAIN roles[g]
    /\ id \notin memberRoles[g][m]
    /\ memberRoles' = [memberRoles EXCEPT ![g][m] = @ \cup {id}]
    /\ Outside
    /\ UNCHANGED <<roles, nextRoleId, nick>>

ExtRevokeRole(g, m, id) ==
    /\ id \in memberRoles[g][m]
    /\ memberRoles' = [memberRoles EXCEPT ![g][m] = @ \ {id}]
    /\ Outside
    /\ UNCHANGED <<roles, nextRoleId, nick>>

\* Guild::search_members: the members whose user name starts with the query
search_members(g, query) == {m \in MembersOf(g) : IsPrefix(query, UserName[m])}

\* a membership test that always succeeds
has_role_always(held, g, m, id) == TRUE

\* User::has_role: whether the member holds the role now
has_role(held, g, m, id) == id \in held[g][m]

\* ---------------------------------------------------------- invocations
Set(p, r) == procs' = [procs EXCEPT ![p] = r]
Others(p) == \E q \in Procs \ {p} : Busy(q)

\* a command arrives: invocations already under way are no longer alone
Begin(p, r) ==
    /\ procs[p].pc = "idle"
    /\ events' = events + 1
    /\ procs' = [q \in Procs |->
                   IF q = p THEN [r EXCEPT !.alone = ~Others(p)]
                   ELSE Disturbed(procs[q])]
    /\ prevInv' = None
    /\ UNCHANGED <<db, written, dirVars, nickVars>>

\* ctx.author_member().await.ok_or("foo")?: for a slash command the member
\* comes with the interaction, so it is known, or found missing, on arrival
AuthorMember(r, known) == IF known THEN [r EXCEPT !.pc = "csu_get"] ELSE Done(r, "err")

\* the invocation comes right after a set_roles of its guild that completed,
\* nothing having happened since
Fresh(p, g) == ~Others(p) /\ prevInv.some /\ prevInv.val.guild = g

\* rename's arguments username and nickname are drawn where the handler
\* first reads them: no step before that depends on them
StartRename(p, g, m, known) ==
    Begin(p, AuthorMember([Idle EXCEPT !.cmd = "rename", !.guild = g,
                                       !.invoker = m, !.kind = "Renamer",
                                       !.fresh = Fresh(p, g)], known))

StartAllow(p, g, m, known) ==
    Begin(p, AuthorMember([Idle EXCEPT !.cmd = "allow", !.guild = g,
                                       !.invoker = m, !.kind = "Allow",
                                       !.fresh = Fresh(p, g)], known))

StartDisallow(p, g, m, known) ==
    Begin(p, AuthorMember([Idle EXCEPT !.cmd = "disallow", !.guild = g,
                                       !.invoker = m, !.kind = "Allow",
                                       !.fresh = Fresh(p, g)], known))

StartSetRoles(p, g, renamer_role, allow_role) ==
    LET args == [Renamer |-> renamer_role, Allow |-> allow_role] IN
    Begin(p, [Idle EXCEPT !.pc = "sr_get", !.cmd = "set_roles", !.guild = g,
                          !.role_name = args, !.kind = "Renamer",
                          !.rerun = /\ ~Others(p)
                                    /\ prevInv = Some([guild |-> g, role_name |-> args])])

\* the invocation is over: its record is dropped
Finish(p) ==
    /\ procs[p].pc = "done"
    /\ Set(p, Idle)
    /\ prevInv' = IF /\ procs[p].cmd = "set_roles"
                     /\ procs[p].result = "ok"
                     /\ procs[p].alone
                  THEN Some([guild |-> procs[p].guild,
                             role_name |-> procs[p].role_name])
                  ELSE None
    /\ UNCHANGED <<db, written, dirVars, events, nickVars>>

\* a step of an invocation that touches neither the store nor the directory
Local(p, r) ==
    /\ Set(p, r)
    /\ UNCHANGED <<db, written, dirVars, prevInv, events, nickVars>>

\* a check that goes on to the membership query without a stored name
CsuGetUnchecked(p) ==
    LET r == procs[p]
        role_name == RoleDbGet(db, r.kind, r.guild)
    IN /\ r.pc = "csu_get"
       /\ Local(p, IF role_name = Panicked THEN Done(r, "panic")
                   ELSE IF role_name.some
                   THEN [r EXCEPT !.pc = "csu_roles", !.stored = role_name]
                   ELSE [r EXCEPT !.pc = "has_role", !.gate = "NotConfigured",
                                  !.msg = "NotKnown"])

\* check_set_up: ROLE_DB.get(app_role, &guild_id)?
CsuGet(p) ==
    LET r == procs[p]
        role_name == RoleDbGet(db, r.kind, r.guild)
    IN /\ r.pc = "csu_get"
       /\ \/ Local(p, Done(r, "err"))
          \/ Local(p, IF role_name = Panicked THEN Done(r, "panic")
                      ELSE IF role_name.some
                      THEN [r EXCEPT !.pc = "csu_roles", !.stored = role_name]
                      ELSE [r EXCEPT !.pc = "csu_send", !.gate = "NotConfigured",
                                     !.msg = "NotKnown"])

\* check_set_up: role_by_name!(guild_id, http, name)
CsuRoles(p) ==
    LET r == procs[p]
        found == role_by_name(roles[r.guild], r.stored.val)
    IN /\ r.pc = "csu_roles"
       /\ \/ Local(p, Done(r, "panic"))
          \/ /\ found = {}
             /\ Local(p, [r EXCEPT !.pc = "csu_send", !.gate = "RoleMissing",
                                   !.msg = "NotExist"])
          \/ \E id \in found :
                Local(p, [r EXCEPT !.pc = "has_role", !.gate = "Resolved",
                                   !.role_id = id])

\* check_set_up: ctx.send(..).await?; Ok(None), and the caller returns Ok(())
CsuSend(p) ==
    LET r == procs[p] IN
    /\ r.pc = "csu_send"
    /\ \/ Local(p, Done(r, "err"))
       \/ Local(p, Done([r EXCEPT !.replies = @ + 1], "ok"))

\* ------------------------------------------------------------- rename
\* member.user.has_role(..).await?, then is_valid_nickname(&nickname)
RenameHasRole(p) ==
    LET r == procs[p]
        has == has_role(memberRoles, r.guild, r.invoker, r.role_id)
    IN /\ r.pc = "has_role"
       /\ r.cmd = "rename"
       /\ \/ Local(p, Done(r, "err"))
          \/ /\ ~has
             /\ Local(p, [r EXCEPT !.pc = "send", !.held = "no", !.msg = "Denied"])
          \/ /\ has
             /\ \E nickname \in RenameNicks :
                   Local(p, IF is_valid_nickname(nickname)
                            THEN [r EXCEPT !.pc = "search", !.held = "yes",
                                           !.nickname = nickname]
                            ELSE [r EXCEPT !.pc = "send", !.held = "yes",
                                           !.nickname = nickname,
                                           !.msg = "InvalidNick"])

\* a match that takes the first of several targets
MatchTargetsFirst(r, target_members_vec) ==
    LET n == Cardinality(target_members_vec) IN
    IF n = 0 THEN [r EXCEPT !.pc = "send", !.found = n, !.msg = "NoUsers"]
    ELSE [r EXCEPT !.pc = "edit", !.found = n,
                   !.target = CHOOSE m \in target_members_vec : TRUE]

\* the arm of match target_members_vec.len(): the target and the message
MatchTargets(r, target_members_vec) ==
    LET n == Cardinality(target_members_vec) IN
    IF n = 0 THEN [r EXCEPT !.pc = "send", !.found = n, !.msg = "NoUsers"]
    ELSE IF n = 1
    THEN [r EXCEPT !.pc = "edit", !.found = n,
                   !.target = CHOOSE m \in target_members_vec : TRUE]
    ELSE [r EXCEPT !.pc = "send", !.found = n, !.msg = "TooMany"]

\* search_members(http, &username, None).await?
RenameSearch(p) ==
    LET r == procs[p] IN
    /\ r.pc = "search"
    /\ \/ Local(p, Done(r, "err"))
       \/ \E username \in Queries :
             Local(p, MatchTargets([r EXCEPT !.username = username],
                                   search_members(r.guild, username)))

\* target_member.edit(http, |u| u.nickname(&nickname)).await?
RenameEdit(p) ==
    LET r == procs[p] IN
    /\ r.pc = "edit"
    /\ \/ Local(p, Done(r, "err"))
       \/ /\ nick' = [nick EXCEPT ![r.guild][r.target] = Some(r.nickname)]
          /\ Set(p, [r EXCEPT !.pc = "send", !.msg = "Success", !.ephemeral = FALSE])
          /\ UNCHANGED <<db, written, roles, nextRoleId, memberRoles, prevInv,
                         events, nickVars>>

\* ctx.send(|m| m.ephemeral(ephemeral).content(msg)).await?; Ok(())
Send(p) ==
    LET r == procs[p] IN
    /\ r.pc = "send"
    /\ \/ Local(p, Done(r, "err"))
       \/ Local(p, Done([r EXCEPT !.replies = @ + 1], "ok"))

\* ----------------------------------------------------- allow, disallow
AllowHasRole(p) ==
    LET r == procs[p]
        has == has_role(memberRoles, r.guild, r.invoker, r.role_id)
    IN /\ r.pc = "has_role"
       /\ r.cmd = "allow"
       /\ \/ Local(p, Done(r, "err"))
          \/ Local(p, IF ~has
                      THEN [r EXCEPT !.pc = "add_role", !.held = "no"]
                      ELSE [r EXCEPT !.pc = "send", !.held = "yes",
                                     !.msg = "AlreadyAllow"])

\* member.add_role(http, allow_role_id).await?: fails on a role deleted since
AddRole(p) ==
    LET r == procs[p] IN
    /\ r.pc = "add_role"
    /\ \/ Local(p, Done(r, "err"))
       \/ /\ r.role_id \in DOMAIN roles[r.guild]
          /\ memberRoles' = [memberRoles EXCEPT ![r.guild][r.invoker] = @ \cup {r.role_id}]
          /\ Set(p, [r EXCEPT !.pc = "send", !.msg = "AllowOk"])
          /\ UNCHANGED <<db, written, roles, nextRoleId, nick, prevInv,
                         events, nickVars>>

DisallowHasRole(p) ==
    LET r == procs[p]
        has == has_role(memberRoles, r.guild, r.invoker, r.role_id)
    IN /\ r.pc = "has_role"
       /\ r.cmd = "disallow"
       /\ \/ Local(p, Done(r, "err"))
          \/ Local(p, IF has
                      THEN [r EXCEPT !.pc = "remove_role", !.held = "yes"]
                      ELSE [r EXCEPT !.pc = "send", !.held = "no",
                                     !.msg = "AlreadyDisallow"])

\* member.remove_role(http, allow_role_id).await?
RemoveRole(p) ==
    LET r == procs[p] IN
    /\ r.pc = "remove_role"
    /\ \/ Local(p, Done(r, "err"))
       \/ /\ r.role_id \in DOMAIN roles[r.guild]
          /\ memberRoles' = [memberRoles EXCEPT ![r.guild][r.invoker] = @ \ {r.role_id}]
          /\ Set(p, [r EXCEPT !.pc = "send", !.msg = "DisallowOk"])
          /\ UNCHANGED <<db, written, roles, nextRoleId, nick, prevInv,
                         events, nickVars>>

\* ---------------------------------------------------------- set_roles
\* set_role returns: set_roles calls it for Allow next, or sends the report
Returned(r) ==
    IF r.kind = "Renamer" THEN [r EXCEPT !.pc = "sr_get", !.kind = "Allow"]
    ELSE [r EXCEPT !.pc = "sr_send"]

\* a comparison that never finds the stored name equal
SameAsStoredNever(stored_role, role_name) == FALSE

\* set_role: the arm Some(stored_role) if stored_role == role_name
SameAsStored(stored_role, role_name) ==
    stored_role.some /\ stored_role.val = role_name

\* set_role: match ROLE_DB.get(app_role, &guild_id)?
SrGet(p) ==
    LET r == procs[p]
        stored_role == RoleDbGet(db, r.kind, r.guild)
    IN /\ r.pc = "sr_get"
       /\ \/ Local(p, Done(r, "err"))
          \/ Local(p, IF stored_role = Panicked THEN Done(r, "panic")
                      ELSE IF SameAsStored(stored_role, r.role_name[r.kind])
                      THEN [r EXCEPT !.pc = "sr_roles", !.db_msg[r.kind] = "NoChange"]
                      ELSE [r EXCEPT !.pc = "sr_insert"])

\* set_role: ROLE_DB.insert(app_role, &guild_id, role_name)?
SrInsert(p) ==
    LET r == procs[p]
        ins == RoleDbInsert(db, r.kind, r.guild, r.role_name[r.kind])
    IN /\ r.pc = "sr_insert"
       /\ \/ Local(p, Done(r, "err"))
          \/ /\ db' = ins.store
             /\ written' = [written EXCEPT ![r.kind][r.guild] = Some(r.role_name[r.kind])]
             /\ Set(p, IF ins.prev = Panicked THEN Done(r, "panic")
                       ELSE [r EXCEPT !.pc = "sr_roles", !.prev[r.kind] = ins.prev,
                                      !.db_msg[r.kind] =
                                          IF ins.prev.some THEN "Changed" ELSE "Set"])
             /\ UNCHANGED <<dirVars, prevInv, events, nickVars>>

\* set_role: match role_by_name!(guild_id, http, role_name)
SrRoles(p) ==
    LET r == procs[p]
        found == role_by_name(roles[r.guild], r.role_name[r.kind])
    IN /\ r.pc = "sr_roles"
       /\ \/ Local(p, Done(r, "panic"))
          \/ /\ found = {}
             /\ Local(p, [r EXCEPT !.pc = "sr_create"])
          \/ \E id \in found :
                Local(p, Returned([r EXCEPT !.role_msg[r.kind] = "Existing",
                                            !.role_ids[r.kind] = id]))

\* set_role: guild_id.create_role(http, |r| r.name(&role_name)..).await?
SrCreate(p) ==
    LET r == procs[p] IN
    /\ r.pc = "sr_create"
    /\ \/ Local(p, Done(r, "err"))
       \/ /\ roles' = [roles EXCEPT ![r.guild] = @ @@ (nextRoleId :> r.role_name[r.kind])]
          /\ nextRoleId' = nextRoleId + 1
          /\ Set(p, Returned([r EXCEPT !.role_msg[r.kind] = "Created",
                                       !.role_ids[r.kind] = nextRoleId]))
          /\ UNCHANGED <<db, written, memberRoles, nick, prevInv, events, nickVars>>

\* set_roles: ctx.send(|m| m.ephemeral(true).embed(..)).await?; Ok(())
SrSend(p) ==
    LET r == procs[p] IN
    /\ r.pc = "sr_send"
    /\ \/ Local(p, Done(r, "err"))
       \/ Local(p, Done([r EXCEPT !.replies = @ + 1], "ok"))

\* ------------------------------------------------------ specifications
\* the guild that other actors change and whose administrators race; the
\* directory of the other guild changes only through the commands
RaceGuild == CHOOSE g \in Guilds : \A h \in Guilds : g <= h

Outsider ==
    \E g \in {RaceGuild} :
        \/ \E name \in RoleNames : ExtCreateRole(g, name)
        \/ \E id \in RoleIds :
              \/ ExtDeleteRole(g, id)
              \/ \E name \in RoleNames : ExtRenameRole(g, id, name)
              \/ \E m \in MembersOf(g) : ExtGrantRole(g, m, id) \/ ExtRevokeRole(g, m, id)

Arrive(p) ==
    /\ events < MaxEvents
    /\ \E g \in Guilds :
          \/ \E m \in MembersOf(g), known \in BOOLEAN :
                \/ StartRename(p, g, m, known)
                \/ StartAllow(p, g, m, known)
                \/ StartDisallow(p, g, m, known)
          \/ \E rr, ar \in RoleNames : StartSetRoles(p, g, rr, ar)

Step(p) ==
    \/ CsuGet(p) \/ CsuRoles(p) \/ CsuSend(p)
    \/ RenameHasRole(p) \/ RenameSearch(p) \/ RenameEdit(p) \/ Send(p)
    \/ AllowHasRole(p) \/ AddRole(p) \/ DisallowHasRole(p) \/ RemoveRole(p)
    \/ SrGet(p) \/ SrInsert(p) \/ SrRoles(p) \/ SrCreate(p) \/ SrSend(p)
    \/ Finish(p)

\* one invocation at a time, the directory changing under it
Next == Outsider \/ \E p \in SeqProcs : Arrive(p) \/ Step(p)
Spec == Init /\ [][Next]_vars

\* is_valid_nickname applied to one nickname
NickLens == {0, 1, 10, 11, 16, 17, 31, 32, 33}
NickBodies ==
    {Rep(c, n) : c \in {97, 233, 8364}, n \in NickLens}
        \cup {<<97>> \o Rep(32, n) \o <<98>> : n \in {2, 8, 30, 31}}
NickInputs ==
    {Rep(32, l) \o b \o Rep(12288, t) : l \in 0..MaxPad, t \in 0..MaxPad, b \in NickBodies}

Validate ==
    /\ nickOut = "unset"
    /\ nickOut' = IF is_valid_nickname(nickIn) THEN "valid" ELSE "invalid"
    /\ UNCHANGED <<db, written, dirVars, procs, prevInv, events, nickIn>>

InitNick ==
    /\ db = [k \in Kinds |-> <<>>]
    /\ written = [k \in Kinds |-> [g \in Guilds |-> None]]
    /\ roles = [g \in Guilds |-> <<>>]
    /\ nextRoleId = 1
    /\ memberRoles = [g \in Guilds |-> [m \in MembersOf(g) |-> {}]]
    /\ nick = [g \in Guilds |-> [m \in MembersOf(g) |-> None]]
    /\ procs = [p \in Procs |-> Idle]
    /\ prevInv = None
    /\ events = 0
    /\ nickIn \in NickInputs
    /\ nickOut = "unset"

SpecNick == InitNick /\ [][Validate]_vars

\* administrators of the shared guild configure it concurrently: set_roles
\* invocations interleaved at their awaits
Configure(p) ==
    \/ /\ events < MaxRacers
       /\ \E rr, ar \in RoleNames : StartSetRoles(p, RaceGuild, rr, ar)
    \/ SrGet(p) \/ SrInsert(p) \/ SrRoles(p) \/ SrCreate(p) \/ SrSend(p)
    \/ Finish(p)

NextConc == \E p \in Procs : Configure(p)
SpecConc == Init /\ [][NextConc]_vars

\* members opt in and out in a guild where two live roles bear the configured
\* name: the state after two roles of one name were made by hand and
\* set_roles completed with that name for both kinds
TwinName == <<77, 111, 100, 115>>
TwinStore ==
    RoleDbInsert(RoleDbInsert([k \in Kinds |-> <<>>], "Renamer", RaceGuild, TwinName).store,
                 "Allow", RaceGuild, TwinName).store

InitTwin ==
    /\ db = TwinStore
    /\ written = [k \in Kinds |->
                    [g \in Guilds |-> IF g = RaceGuild THEN Some(TwinName) ELSE None]]
    /\ roles = [g \in Guilds |-> IF g = RaceGuild THEN <<TwinName, TwinName>> ELSE <<>>]
    /\ nextRoleId = 3
    /\ memberRoles = [g \in Guilds |-> [m \in MembersOf(g) |-> {}]]
    /\ nick = [g \in Guilds |-> [m \in MembersOf(g) |-> None]]
    /\ procs = [p \in Procs |-> Idle]
    /\ prevInv = None
    /\ events = 0
    /\ nickIn = <<>>
    /\ nickOut = "unset"

OptInOut(p) ==
    \/ /\ events < MaxEvents
       /\ \E g \in Guilds, m \in Members, known \in BOOLEAN :
             /\ m \in MembersOf(g)
             /\ StartAllow(p, g, m, known) \/ StartDisallow(p, g, m, known)
    \/ CsuGet(p) \/ CsuRoles(p) \/ CsuSend(p)
    \/ AllowHasRole(p) \/ AddRole(p) \/ DisallowHasRole(p) \/ RemoveRole(p)
    \/ Send(p) \/ Finish(p)

NextTwin == \E p \in SeqProcs : OptInOut(p)
SpecTwin == InitTwin /\ [][NextTwin]_vars

\* ================================================================ claims
Key(g) == to_ne_bytes(g, KeyWidth)
RenameProc(p) == procs[p].cmd = "rename"
Moved(p) == procs'[p].pc # procs[p].pc      \* the invocation took a step
Failed(r) == r.pc = "done" /\ r.result # "ok"

\* ---------------------------------------------------------------- C1
C1_Edit ==
    \A g \in Guilds : \A m \in MembersOf(g) :
        nick'[g][m] # nick[g][m] =>
            \E p \in Procs :
                /\ RenameProc(p) /\ procs[p].pc = "edit"
                /\ procs[p].guild = g /\ procs[p].target = m
                /\ procs[p].kind = "Renamer" /\ procs[p].gate = "Resolved"
                /\ procs[p].role_id # 0 /\ procs[p].held = "yes"

C1_Check ==
    \A p \in Procs :
        (RenameProc(p) /\ procs[p].pc = "has_role" /\ Moved(p) /\ ~Failed(procs'[p])) =>
            LET r == procs[p]
                holds == r.role_id \in memberRoles[r.guild][r.invoker]
            IN /\ procs'[p].held = IF holds THEN "yes" ELSE "no"
               /\ ~holds => procs'[p].msg = "Denied" /\ procs'[p].pc = "send"

C1_Denied ==
    \A p \in Procs :
        (RenameProc(p) /\ procs[p].held = "no") =>
            /\ procs[p].msg = "Denied" /\ procs[p].ephemeral
            /\ procs[p].pc \in {"send", "done"}
            /\ procs[p].target = 0
            /\ (procs[p].pc = "done" /\ procs[p].result = "ok") => procs[p].replies = 1

\* C1: rename changes a nickname only in an invocation whose set-up check
\* resolved the Renamer kind to a role id and whose invoker held that role
\* when has_role was asked; an invoker who does not hold it gets the
\* permission-denied reply and that invocation never reaches the edit.
RenameAuthorized == [][C1_Edit /\ C1_Check /\ C1_Denied /\ C1_Denied']_vars

RenameAuthorizedWitness ==
    \E p \in Procs :
        /\ RenameProc(p) /\ procs[p].msg = "Success" /\ procs[p].held = "yes"
        /\ nick[procs[p].guild][procs[p].target] = Some(procs[p].nickname)

\* ---------------------------------------------------------------- C2
\* C2: the set-up check returns a role id only if a live role of the guild
\* bears exactly the stored name at the time of the lookup, and then the id
\* of such a role; when no live role bears the name it reports RoleMissing
\* with the "does not exist" diagnostic and no id.
ResolveByLiveName ==
    [][\A p \in Procs :
          (procs[p].pc = "csu_roles" /\ Moved(p) /\ ~Failed(procs'[p])) =>
              LET r == procs[p]
                  live == roles[r.guild]
                  name == r.stored.val
                  after == procs'[p]
              IN /\ after.gate \in {"Resolved", "RoleMissing"}
                 /\ after.gate = "Resolved" =>
                        /\ after.role_id \in DOMAIN live
                        /\ live[after.role_id] = name
                        /\ after.pc = "has_role"
                 /\ (\A id \in DOMAIN live : live[id] # name) =>
                        /\ after.gate = "RoleMissing"
                        /\ after.role_id = 0
                        /\ after.msg = "NotExist"
                        /\ after.pc = "csu_send"]_vars

\* the lookup misses after a role of the guild was deleted or renamed
ResolveByLiveNameWitness ==
    \E p \in Procs :
        /\ procs[p].gate = "RoleMissing"
        /\ nextRoleId > 1
        /\ written[procs[p].kind][procs[p].guild] = procs[p].stored

\* ---------------------------------------------------------------- C3
C3_Get ==
    \A k \in Kinds, g \in Guilds : ~written[k][g].some => RoleDbGet(db, k, g) = None

C3_Step ==
    \A p \in Procs :
        (/\ procs[p].pc = "csu_get" /\ Moved(p) /\ ~Failed(procs'[p])
         /\ ~written[procs[p].kind][procs[p].guild].some) =>
            /\ procs'[p].gate = "NotConfigured"
            /\ procs'[p].msg = "NotKnown"
            /\ procs'[p].pc = "csu_send"

C3_Outcome ==
    \A p \in Procs :
        procs[p].gate = "NotConfigured" =>
            /\ procs[p].role_id = 0 /\ ~procs[p].stored.some
            /\ procs[p].msg = "NotKnown" /\ procs[p].ephemeral
            /\ procs[p].pc \in {"csu_send", "done"}
            /\ procs[p].pc = "done" =>
                  \/ procs[p].result = "ok" /\ procs[p].replies = 1
                  \/ procs[p].result = "err" /\ procs[p].replies = 0

\* C3: for a kind and guild no set was ever performed for, get returns
\* absent and the set-up check reports NotConfigured: it goes from the get
\* straight to sending the "not known" diagnostic, never to the role lookup,
\* returns no role id, and ends without error once the diagnostic is sent.
NotConfiguredFirst == [][C3_Get /\ C3_Get' /\ C3_Step /\ C3_Outcome /\ C3_Outcome']_vars

\* not configured for the kind asked while the guild has live roles
NotConfiguredFirstWitness ==
    \E p \in Procs :
        /\ procs[p].gate = "NotConfigured"
        /\ procs[p].pc = "done" /\ procs[p].result = "ok"
        /\ roles[procs[p].guild] # <<>>

\* ---------------------------------------------------------------- C4
\* C4: right after set(kind, guild, name), get(kind, guild) returns name.
SetThenGet ==
    [][\A p \in Procs :
          (procs[p].pc = "sr_insert" /\ Moved(p) /\ ~Failed(procs'[p])) =>
              RoleDbGet(db', procs[p].kind, procs[p].guild)
                  = Some(procs[p].role_name[procs[p].kind])]_vars

\* a name with a two-byte character was set over another name
SetThenGetWitness ==
    \E p \in Procs, k \in Kinds :
        /\ procs[p].db_msg[k] = "Changed"
        /\ \E i \in 1..Len(procs[p].role_name[k]) : procs[p].role_name[k][i] > 127
        /\ RoleDbGet(db, k, procs[p].guild) = Some(procs[p].role_name[k])

\* ---------------------------------------------------------------- C5
C5_Match ==
    \A p \in Procs :
        (procs[p].pc = "search" /\ Moved(p) /\ ~Failed(procs'[p])) =>
            LET after == procs'[p]
                n == Cardinality({m \in MembersOf(after.guild) :
                                     IsPrefix(after.username, UserName[m])})
            IN /\ after.found = n
               /\ n = 0 => after.msg = "NoUsers" /\ after.pc = "send"
               /\ n = 1 => after.msg = "" /\ after.pc = "edit"
               /\ n >= 2 => after.msg = "TooMany" /\ after.pc = "send"

C5_Edit ==
    \A g \in Guilds : \A m \in MembersOf(g) :
        nick'[g][m] # nick[g][m] =>
            \E p \in Procs :
                /\ RenameProc(p) /\ procs[p].pc = "edit" /\ procs[p].found = 1
                /\ procs[p].guild = g /\ procs[p].target = m
                /\ IsPrefix(procs[p].username, UserName[m])

C5_Outcome ==
    \A p \in Procs :
        /\ procs[p].msg = "NoUsers" => procs[p].found = 0 /\ procs[p].ephemeral
        /\ procs[p].msg = "TooMany" => procs[p].found >= 2 /\ procs[p].ephemeral
        /\ procs[p].msg = "Success" => procs[p].found = 1 /\ ~procs[p].ephemeral

\* C5: in rename a search with no match yields the "found no users" message,
\* one with two or more matches the "too many users" message, one with exactly
\* one match goes on to the edit; only that case changes a nickname.
TargetSearch == [][C5_Match /\ C5_Edit /\ C5_Outcome /\ C5_Outcome']_vars

TargetSearchWitness ==
    \E p \in Procs :
        /\ procs[p].found = 1 /\ procs[p].msg = "Success"
        /\ procs[p].pc = "done" /\ procs[p].result = "ok"
        /\ nick[procs[p].guild][procs[p].target] = Some(procs[p].nickname)

\* ---------------------------------------------------------------- C6
\* C6: a nickname is accepted exactly when, trimmed of leading and trailing
\* whitespace, it is 1 to 32 characters long.
NicknameByChars ==
    nickOut # "unset" =>
        (nickOut = "valid" <=> Len(Trim(nickIn)) \in 1..(NickTooLong - 1))

\* ---------------------------------------------------------------- C7
C7_Outcome ==
    \A p \in Procs :
        procs[p].rerun =>
            /\ procs[p].cmd = "set_roles" /\ procs[p].alone
            /\ procs[p].pc \notin {"sr_insert", "sr_create"}
            /\ \A k \in Kinds :
                  /\ procs[p].db_msg[k] \in {"", "NoChange"}
                  /\ procs[p].role_msg[k] \in {"", "Existing"}
            /\ (procs[p].pc = "done" /\ procs[p].result = "ok") =>
                  \A k \in Kinds : /\ procs[p].db_msg[k] = "NoChange"
                                   /\ procs[p].role_msg[k] = "Existing"

C7_Step ==
    \A p \in Procs :
        (procs[p].rerun /\ Moved(p)) => db' = db /\ roles' = roles

\* C7: a set_roles invocation that follows a completed one with the same
\* guild and names, nothing happening in between, writes nothing to the store
\* and creates no role: for both kinds it reports "no change made" and "Using
\* existing server role", and the store and the live roles stay as they were.
SetRolesIdempotent == [][C7_Outcome /\ C7_Outcome' /\ C7_Step]_vars

SetRolesIdempotentWitness ==
    \E p \in Procs :
        /\ procs[p].rerun /\ procs[p].pc = "done" /\ procs[p].result = "ok"
        /\ procs[p].role_name["Renamer"] # procs[p].role_name["Allow"]

\* ---------------------------------------------------------------- C8
\* set_roles given one name for both kinds: set_role looks the role up, or
\* creates it, twice in succession
EnsuredTwice(p) ==
    /\ procs[p].cmd = "set_roles" /\ procs[p].alone
    /\ procs[p].role_name["Renamer"] = procs[p].role_name["Allow"]
    /\ procs[p].role_ids["Allow"] # 0

Named(g, name) == {id \in DOMAIN roles[g] : roles[g][id] = name}

\* C8: ensure (set_role's lookup-or-create, lines 287-303) called twice in
\* succession with the same name, nothing happening in between, returns the
\* same live role id both times.
EnsureSameId ==
    \A p \in Procs :
        EnsuredTwice(p) => procs[p].role_ids["Allow"] = procs[p].role_ids["Renamer"]

C8_Reuse ==
    \A p \in Procs :
        EnsuredTwice(p) =>
            LET r == procs[p]
                same == Named(r.guild, r.role_name["Allow"])
            IN /\ r.role_msg["Allow"] = "Existing"
               /\ r.role_ids["Allow"] \in same
               /\ r.role_ids["Renamer"] \in same
               /\ r.role_msg["Renamer"] = "Created" => same = {r.role_ids["Renamer"]}
               /\ Cardinality(same) = 1 => r.role_ids["Allow"] = r.role_ids["Renamer"]

C8_Create ==
    \A p \in Procs :
        /\ (procs[p].pc = "sr_roles" /\ procs'[p].pc = "sr_create") =>
              Named(procs[p].guild, procs[p].role_name[procs[p].kind]) = {}
        /\ (procs[p].pc = "sr_create" /\ Moved(p) /\ ~Failed(procs'[p])) =>
              LET g == procs[p].guild
                  k == procs[p].kind
                  new == DOMAIN roles'[g] \ DOMAIN roles[g]
              IN /\ new = {procs'[p].role_ids[k]}
                 /\ \A id \in new : roles'[g][id] = procs[p].role_name[k]
                 /\ \A id \in DOMAIN roles[g] : roles'[g][id] = roles[g][id]

\* what the two calls do guarantee: the first creates a role only if none
\* bears the name, the second creates none and returns a live role of that
\* name; the two ids are the same whenever one live role bears the name.
EnsureReuses == [][C8_Reuse /\ C8_Reuse' /\ C8_Create]_vars

EnsureReusesWitness ==
    \E p \in Procs :
        /\ EnsuredTwice(p)
        /\ procs[p].role_msg["Renamer"] = "Created"
        /\ procs[p].role_msg["Allow"] = "Existing"
        /\ procs[p].role_ids["Allow"] = procs[p].role_ids["Renamer"]

\* ---------------------------------------------------------------- C9
C9_Get ==
    \A k \in Kinds, g \in Guilds : RoleDbGet(db, k, g) = written[k][g]

\* get agrees with the last set before anything runs, and again after every
\* step that touches the store; the steps in between leave both alone
C9_GetNext ==
    /\ events = 0 => C9_Get
    /\ (db' # db \/ written' # written) =>
          \A k \in Kinds, g \in Guilds : RoleDbGet(db', k, g) = written'[k][g]

C9_Set ==
    \A p \in Procs :
        (procs[p].pc = "sr_insert" /\ Moved(p) /\ ~Failed(procs'[p])) =>
            LET k == procs[p].kind
                g == procs[p].guild
            IN /\ procs'[p].prev[k] = written[k][g]
               /\ procs'[p].db_msg[k] = IF written[k][g].some THEN "Changed" ELSE "Set"
               /\ RoleDbGet(db', k, g) = Some(procs[p].role_name[k])
               /\ \A j \in Kinds, h \in Guilds :
                     <<j, h>> # <<k, g>> => RoleDbGet(db', j, h) = RoleDbGet(db, j, h)

\* C9: set overwrites the entry of its kind and guild in one step and
\* returns the value it overwrote, absent on the first set for the key; under
\* every interleaving of concurrent invocations a get returns the name of the
\* set applied last, and a returned previous value is the name set before.
LastWriterWins == [][C9_GetNext /\ C9_Set]_vars

\* two invocations under way wrote the same key, the second over the first
LastWriterWinsWitness ==
    \E p \in Procs, q \in Procs, k \in Kinds :
        /\ p # q /\ Running(p) /\ Running(q)
        /\ procs[p].db_msg[k] = "Set" /\ procs[q].db_msg[k] = "Changed"
        /\ procs[q].prev[k] = Some(procs[p].role_name[k])
        /\ procs[q].role_name[k] # procs[p].role_name[k]
        /\ RoleDbGet(db, k, procs[q].guild) = Some(procs[q].role_name[k])

\* --------------------------------------------------------------- C10
C10_Frame ==
    db' # db =>
        \A k \in Kinds, g \in Guilds :
            /\ RoleDbGet(db', k, g) # RoleDbGet(db, k, g) =>
                  \E p \in Procs :
                      /\ procs[p].cmd = "set_roles" /\ procs[p].pc = "sr_insert"
                      /\ procs[p].kind = k /\ procs[p].guild = g /\ Moved(p)
            /\ RoleDbGet(db, k, g).some => RoleDbGet(db', k, g).some
            /\ DOMAIN db[k] \subseteq DOMAIN db'[k]

C10_Readers ==
    \A p \in Procs :
        (procs[p].cmd \in {"rename", "allow", "disallow"} /\ Moved(p)) => db' = db

\* C10: the entry of a kind and guild changes only in the insert of a
\* set_role for that kind and that guild; a set for the other kind or another
\* guild, the set-up check, rename, allow and disallow leave it as it is, and
\* an entry once present is never removed.
StoreFrame == [][C10_Frame /\ C10_Readers]_vars

\* both guilds configured with different names, a check reading one of them
StoreFrameWitness ==
    \E p \in Procs, g \in Guilds, h \in Guilds :
        /\ g # h
        /\ RoleDbGet(db, "Renamer", g).some /\ RoleDbGet(db, "Renamer", h).some
        /\ RoleDbGet(db, "Renamer", g) # RoleDbGet(db, "Renamer", h)
        /\ RoleDbGet(db, "Allow", g) # RoleDbGet(db, "Renamer", g)
        /\ procs[p].cmd = "rename" /\ procs[p].guild = g /\ procs[p].gate # "none"

\* --------------------------------------------------------------- C11
FailureMessages == {"NotKnown", "NotExist", "Denied", "InvalidNick", "NoUsers", "TooMany"}

\* C11: an invocation that ended on a failure path (one of the failure
\* messages, or a storage, directory or identity failure) has sent exactly
\* one reply, and that reply is ephemeral; only the reply of a successful
\* rename is not ephemeral.
OneReplyPerFailure ==
    \A p \in Procs :
        procs[p].pc = "done" =>
            /\ (Failed(procs[p]) \/ procs[p].msg \in FailureMessages) =>
                  procs[p].replies = 1 /\ procs[p].ephemeral
            /\ ~procs[p].ephemeral => procs[p].msg = "Success"
            /\ procs[p].replies <= 1

\* --------------------------------------------------------------- C12
\* C12: a set_roles invocation that ended in failure has written no entry
\* of the store and created no live role, for either kind.
SetRolesAsUnit ==
    \A p \in Procs :
        (procs[p].cmd = "set_roles" /\ Failed(procs[p])) =>
            \A k \in Kinds :
                /\ procs[p].db_msg[k] \notin {"Set", "Changed"}
                /\ procs[p].role_msg[k] # "Created"

\* --------------------------------------------------------------- C13
\* the member holds a live role bearing the name configured for the kind
HoldsConfigured(k, g, m) ==
    LET name == RoleDbGet(db, k, g) IN
    /\ name.some
    /\ \E id \in memberRoles[g][m] :
          id \in DOMAIN roles[g] /\ roles[g][id] = name.val

\* C13: rename changes the nickname only of a member who holds the guild's
\* configured Allow role at the time of the rename.
RenameOnlyOptedIn ==
    [][\A g \in Guilds : \A m \in MembersOf(g) :
          nick'[g][m] # nick[g][m] => HoldsConfigured("Allow", g, m)]_vars

\* --------------------------------------------------------------- C14
\* the positions a rename invocation may go to from each position
C14_After(pc) ==
    CASE pc = "idle" -> {"csu_get", "done"}
      [] pc = "csu_get" -> {"csu_roles", "csu_send", "done"}
      [] pc = "csu_roles" -> {"has_role", "csu_send", "done"}
      [] pc = "csu_send" -> {"done"}
      [] pc = "has_role" -> {"search", "send", "done"}
      [] pc = "search" -> {"edit", "send", "done"}
      [] pc = "edit" -> {"send", "done"}
      [] pc = "send" -> {"done"}
      [] OTHER -> {"idle"}

C14_Order ==
    \A p \in Procs :
        (procs'[p].cmd = "rename" /\ Moved(p)) => procs'[p].pc \in C14_After(procs[p].pc)

\* what each position and each outcome of a rename invocation presupposes
C14_Gates ==
    \A p \in Procs :
        LET r == procs[p]
            chars == StrLen(Trim(r.nickname))
        IN RenameProc(p) =>
            /\ r.pc = "csu_roles" => r.stored.some /\ r.gate = "none"
            /\ r.pc = "has_role" => r.gate = "Resolved" /\ r.role_id # 0 /\ r.held = "none"
            /\ r.pc = "search" => r.held = "yes" /\ chars \in 1..(NickTooLong - 1) /\ r.found = 0 - 1
            /\ r.pc = "edit" => r.found = 1 /\ r.target # 0
            /\ r.gate # "Resolved" => r.held = "none" /\ r.found = 0 - 1 /\ r.target = 0
            /\ r.gate = "NotConfigured" => r.msg = "NotKnown"
            /\ r.gate = "RoleMissing" => r.msg = "NotExist"
            /\ r.held # "yes" => r.found = 0 - 1 /\ r.target = 0 /\ r.nickname = <<>>
            /\ r.held = "no" => r.msg = "Denied"
            /\ r.msg = "InvalidNick" =>
                  r.held = "yes" /\ chars \notin 1..(NickTooLong - 1) /\ r.found = 0 - 1
            /\ r.found # 0 - 1 => r.held = "yes" /\ chars \in 1..(NickTooLong - 1)

\* C14: rename passes its gates in the order invoker identity, set-up check,
\* invoker role membership, nickname validation, target search; a gate that
\* fails ends the invocation with that gate's outcome and none of the later
\* gates' calls is made.
GatesInOrder == [][C14_Order /\ C14_Gates /\ C14_Gates']_vars

\* an invoker holding the role is stopped at validation, before any search
GatesInOrderWitness ==
    \E p \in Procs :
        /\ RenameProc(p) /\ procs[p].pc = "done" /\ procs[p].result = "ok"
        /\ procs[p].gate = "Resolved" /\ procs[p].held = "yes"
        /\ procs[p].msg = "InvalidNick" /\ procs[p].found = 0 - 1
        /\ procs[p].replies = 1

\* --------------------------------------------------------------- C15
\* C15: an invocation whose fetch of the guild's live role list fails ends
\* with an error result returned by the command, in no other way.
RoleListFailureIsError ==
    [][\A p \in Procs :
          (procs[p].pc \in {"csu_roles", "sr_roles"} /\ procs'[p].pc = "done") =>
              procs'[p].result = "err"]_vars

\* --------------------------------------------------------------- C16
\* set_role returns: a live role of the guild bears the name and its id is
\* the one set_role reports
C16_Ensured ==
    \A p \in Procs :
        (/\ procs[p].pc \in {"sr_roles", "sr_create"}
         /\ procs'[p].pc \in {"sr_get", "sr_send"}) =>
            LET k == procs[p].kind
                g == procs[p].guild
            IN /\ procs'[p].role_ids[k] \in DOMAIN roles'[g]
               /\ roles'[g][procs'[p].role_ids[k]] = procs[p].role_name[k]

\* the set-up check that follows a completed set_roles of the guild, nothing
\* having happened since: it reads the name set and resolves it
C16_Resolves ==
    \A p \in Procs :
        LET r == procs[p]
            name == written[r.kind][r.guild]
        IN (r.fresh /\ Moved(p) /\ ~Failed(procs'[p])) =>
              /\ r.pc = "csu_get" =>
                    name.some /\ procs'[p].pc = "csu_roles" /\ procs'[p].stored = name
              /\ r.pc = "csu_roles" =>
                    /\ procs'[p].gate = "Resolved"
                    /\ procs'[p].role_id \in Named(r.guild, name.val)

\* the store names a role that does not exist: the check reports RoleMissing
C16_Missing ==
    \A p \in Procs :
        (/\ procs[p].pc = "csu_roles" /\ Moved(p) /\ ~Failed(procs'[p])
         /\ Named(procs[p].guild, procs[p].stored.val) = {}) =>
            /\ procs'[p].gate = "RoleMissing"
            /\ procs'[p].role_id = 0
            /\ procs'[p].msg = "NotExist"

\* C16: when set_role completes a live role bearing the name exists, and the
\* set-up check of the same kind and guild that comes next, no role changed
\* from outside and nothing configured in between, resolves to a role of that
\* name; when the store was written and the role never created, the next
\* check reports RoleMissing and no id.
EnsuredThenResolved == [][C16_Ensured /\ C16_Resolves /\ C16_Missing]_vars

\* a check right after set_roles resolved the role that set_roles created
EnsuredThenResolvedWitness ==
    \E p \in Procs :
        /\ procs[p].fresh /\ procs[p].gate = "Resolved"
        /\ procs[p].stored = written[procs[p].kind][procs[p].guild]
        /\ roles[procs[p].guild][procs[p].role_id] = procs[p].stored.val

\* --------------------------------------------------------------- C17
\* a command changes a membership only in the add or remove of an allow or
\* disallow whose set-up check resolved the Allow kind, and only by the
\* resolved role
C17_Frame ==
    \A g \in Guilds : \A m \in MembersOf(g) :
        ((\E q \in Procs : Moved(q)) /\ memberRoles'[g][m] # memberRoles[g][m]) =>
            \E p \in Procs :
                LET r == procs[p] IN
                /\ r.guild = g /\ r.invoker = m /\ Moved(p)
                /\ r.kind = "Allow" /\ r.gate = "Resolved" /\ r.role_id # 0
                /\ \/ /\ r.cmd = "allow" /\ r.pc = "add_role" /\ r.held = "no"
                      /\ memberRoles'[g][m] = memberRoles[g][m] \cup {r.role_id}
                   \/ /\ r.cmd = "disallow" /\ r.pc = "remove_role" /\ r.held = "yes"
                      /\ memberRoles'[g][m] = memberRoles[g][m] \ {r.role_id}

\* allow adds exactly when the invoker does not hold the Allow role, and
\* answers "already" when they do; afterwards the invoker holds it
C17_Allow ==
    \A p \in Procs :
        LET r == procs[p]
            holds == HoldsConfigured("Allow", r.guild, r.invoker)
        IN (r.cmd = "allow" /\ Moved(p) /\ ~Failed(procs'[p])) =>
              /\ r.pc = "has_role" =>
                    /\ holds => procs'[p].msg = "AlreadyAllow" /\ procs'[p].pc = "send"
                    /\ ~holds => procs'[p].pc = "add_role"
              /\ r.pc = "add_role" =>
                    r.role_id \in memberRoles'[r.guild][r.invoker]

\* disallow removes exactly when the invoker holds the Allow role, and
\* answers "already" when they do not; afterwards the invoker does not hold it
C17_Disallow ==
    \A p \in Procs :
        LET r == procs[p]
            holds == HoldsConfigured("Allow", r.guild, r.invoker)
        IN (r.cmd = "disallow" /\ Moved(p) /\ ~Failed(procs'[p])) =>
              /\ r.pc = "has_role" =>
                    /\ holds => procs'[p].pc = "remove_role"
                    /\ ~holds => procs'[p].msg = "AlreadyDisallow" /\ procs'[p].pc = "send"
              /\ r.pc = "remove_role" =>
                    r.role_id \notin memberRoles'[r.guild][r.invoker]

\* C17: allow and disallow change the invoker's membership only after the
\* set-up check resolved the Allow kind to a live role, and only for that
\* role; allow adds it exactly when the invoker does not hold the guild's
\* Allow role and disallow removes it exactly when they do, so that a
\* repeated allow or disallow changes nothing and answers "already".
OptInOutOnce == [][C17_Frame /\ C17_Allow /\ C17_Disallow]_vars

\* --------------------------------------------------------------- C18
\* C18: under every interleaving of concurrent set_role invocations, a
\* set_role writes the store only when the value stored at the moment of the
\* write differs from the name it sets: it never reports "changed from X to
\* X", and reports "was set" only when no entry existed at that moment.
WriteOnlyOnChange ==
    [][\A p \in Procs :
          (procs[p].pc = "sr_insert" /\ Moved(p) /\ ~Failed(procs'[p])) =>
              LET k == procs[p].kind
                  name == procs[p].role_name[k]
                  before == RoleDbGet(db, k, procs[p].guild)
              IN /\ before # Some(name)
                 /\ procs'[p].db_msg[k] = "Changed" => procs'[p].prev[k] # Some(name)
                 /\ procs'[p].db_msg[k] = "Set" => ~before.some]_vars

\* --------------------------------------------------------------- C19
\* C19: under every interleaving of concurrent set_role invocations of one
\* guild, the commands create at most one live role of a name: no two live
\* roles of the guild bear the same name.
OneRolePerName ==
    \A g \in Guilds : \A name \in RoleNames : Cardinality(Named(g, name)) <= 1

\* --------------------------------------------------------------- C20
\* C20: a nickname that rename sets on a member is 1 to 32 characters long,
\* also when the nickname supplied had leading or trailing whitespace.
NicknameSetInBounds ==
    [][\A g \in Guilds : \A m \in MembersOf(g) :
          (nick'[g][m] # nick[g][m] /\ nick'[g][m].some) =>
              Len(nick'[g][m].val) \in 1..(NickTooLong - 1)]_vars

====
